---- MODULE Spec2Model ----
(***************************************************************************)
(* Model of src/lexer/scan.rs: the Input sources (in-memory slice and the  *)
(* buffered InputStream), the Splitter contract and the Scanner with its   *)
(* scan loop, position tracking and reset.                                 *)
(*                                                                         *)
(* A scan() call is modelled pass by pass: ScanCall enters the loop,       *)
(* SplitStep is lines 263-290 of one pass (split, consume, return or fall  *)
(* through) and FillStep is line 292 (fill_buf and its `?`).               *)
(***************************************************************************)
EXTENDS Integers, Sequences, FiniteSets, TLC

(***************************************************************************)
(* Bounds of the model.                                                    *)
(***************************************************************************)
\* longest finite byte sequence a Source is built over
MaxLen == 3
\* how many reads of the underlying reader may fail with an I/O error
MaxIoErrors == 1
\* how many times reset() is called
MaxResets == 1

(***************************************************************************)
(* Program constants, scaled down.                                         *)
(***************************************************************************)
\* scan.rs:14, 1024 * 1024 * 1024 in the source
MAX_CAPACITY == 10
\* scan.rs:103, 4096 in the source
DEFAULT_CAPACITY == 1
\* line is u64 and column is usize: 2^64 values in the source, 2^4 here.
\* An increment past the largest value wraps or, with overflow checks on,
\* panics: SplitStep takes either.
POS_MOD == 16

\* b'\n', scan.rs:301
NL == 10
\* the delimiter byte ',' and a letter byte 'a' of the example inputs
COMMA == 44
LETTER == 97

Bytes == {NL, COMMA, LETTER}
Delims == {NL, COMMA}

RECURSIVE SeqsUpTo(_)
SeqsUpTo(n) ==
    IF n = 0 THEN {<<>>}
    ELSE LET S == SeqsUpTo(n - 1)
         IN  S \cup {Append(s, b) : s \in {t \in S : Len(t) = n - 1}, b \in Bytes}

RECURSIVE Repeat(_, _)
Repeat(b, n) == IF n = 0 THEN <<>> ELSE <<b>> \o Repeat(b, n - 1)

\* one run of letters, longer than the ceiling
LongRun == Repeat(LETTER, MAX_CAPACITY + 1)

\* the example input of the specification: a,bb,,ccc and one newline
Example == <<97, 44, 98, 98, 44, 44, 99, 99, 99, 10>>

\* the byte sequences a Source is built over
Inputs == SeqsUpTo(MaxLen) \cup {LongRun, Example}

Min(a, b) == IF a <= b THEN a ELSE b

Drop(s, n) == SubSeq(s, n + 1, Len(s))
Take(s, n) == SubSeq(s, 1, n)

(***************************************************************************)
(* Option values are sequences of length 0 (None) or 1 (Some).             *)
(***************************************************************************)
None == <<>>
Some(x) == <<x>>

(***************************************************************************)
(* Splitter: split(data, eof) -> Result<(Option<Token>, usize), Error>.    *)
(* The implementations are the caller's; these are the ones the            *)
(* specification's properties name, each a function of (data, eof) that    *)
(* never asks to consume more than it is shown.                            *)
(***************************************************************************)
SplitOk(tok, amt) == [err |-> FALSE, tok |-> tok, amt |-> amt]
SplitErr == [err |-> TRUE, tok |-> None, amt |-> 0]
\* Ok((None, 0)): request more data
More == SplitOk(None, 0)

\* index of the first delimiter byte of data, 0 when there is none
FirstDelim(data) ==
    LET I == {i \in 1..Len(data) : data[i] \in Delims}
    IN  IF I = {} THEN 0 ELSE CHOOSE i \in I : \A j \in I : i <= j

\* the whole input is one token
SplitWhole(data, eof) ==
    IF eof /\ data # <<>> THEN SplitOk(Some(data), Len(data)) ELSE More

\* skips delimiters, one at a time, and never emits; any other byte is
\* malformed
SplitDelims(data, eof) ==
    IF data = <<>> THEN More
    ELSE IF data[1] \in Delims THEN SplitOk(None, 1)
    ELSE SplitErr

\* tokens end at ',' or at the terminator '\n'; the last one may end at EOF
SplitComma(data, eof) ==
    LET i == FirstDelim(data)
    IN  IF i > 0 THEN SplitOk(Some(Take(data, i - 1)), i)
        ELSE IF eof /\ data # <<>> THEN SplitOk(Some(data), Len(data))
        ELSE More

\* skips leading delimiters, one at a time, then emits the bytes before the next delimiter
SplitWords(data, eof) ==
    LET i == FirstDelim(data)
    IN  IF data = <<>> THEN More
        ELSE IF i = 1 THEN SplitOk(None, 1)
        ELSE IF i > 1 THEN SplitOk(Some(Take(data, i - 1)), i - 1)
        ELSE IF eof THEN SplitOk(Some(data), Len(data))
        ELSE More

\* emits whatever it is shown
SplitGreedy(data, eof) ==
    IF data = <<>> THEN More ELSE SplitOk(Some(data), Len(data))

SplitterIds == {"whole", "delims", "comma", "words", "greedy"}

Splitter_split(id, data, eof) ==
    CASE id = "whole" -> SplitWhole(data, eof)
      [] id = "delims" -> SplitDelims(data, eof)
      [] id = "comma" -> SplitComma(data, eof)
      [] id = "words" -> SplitWords(data, eof)
      [] id = "greedy" -> SplitGreedy(data, eof)

\* the state a Splitter owns: here whether split has ever run on it
Splitter_new(id) == [id |-> id, used |-> FALSE]
Splitter_after(sp) == [sp EXCEPT !.used = TRUE]

(***************************************************************************)
(* Input.  kind "mem" is &[u8] / Vec<u8>, kind "stream" is InputStream.    *)
(* inner is the client's reader: the bytes it has yet to deliver (rest)    *)
(* and, for a reader that never reports end of data, the byte it goes on   *)
(* delivering for ever (tail).                                             *)
(***************************************************************************)
Reader(rest, tail) == [rest |-> rest, tail |-> tail]
NoReader == Reader(<<>>, None)

MemInput(bytes) ==
    [kind |-> "mem", buf |-> bytes, eof |-> TRUE, cap |-> 0, inner |-> NoReader]

InputStream_new(inner) ==
    [kind |-> "stream", buf |-> <<>>, eof |-> FALSE, cap |-> DEFAULT_CAPACITY,
     inner |-> inner]

\* mutant: eof() that reports the end only once the buffer is drained
Input_eofWhenDrained(inp) ==
    inp.buf = <<>> /\ (IF inp.kind = "mem" THEN TRUE ELSE inp.eof)

Input_eof(inp) == IF inp.kind = "mem" THEN TRUE ELSE inp.eof
Input_is_empty(inp) == inp.buf = <<>>
Input_len(inp) == Len(inp.buf)
Input_buffer(inp) == inp.buf
\* mutant: consume that keeps the last byte it was to discard
Input_consumeShort(inp, amt) ==
    [inp EXCEPT !.buf = Drop(inp.buf, IF amt > 0 THEN amt - 1 ELSE 0)]

Input_consume(inp, amt) == [inp EXCEPT !.buf = Drop(inp.buf, amt)]

Buffer_free_space(inp) == inp.cap - Len(inp.buf)

\* the test of scan.rs:123
CanGrow(capacity) == capacity * 2 < MAX_CAPACITY

\* capacity *= 2; make_room(); reserve(capacity).  Buffer::reserve(additional)
\* of buf_redux makes room for `additional` more bytes after the bytes held and
\* does nothing when that room is there: called with a full buffer, the new
\* capacity is the bytes held plus the doubled capacity.
Buffer_reserve(cap, len, additional) ==
    IF cap - len >= additional THEN cap ELSE len + additional

\* mutant: fill_buf that never records the end of the data
EofNeverSet(sz) == FALSE

\* mutant: a read that does not fill the free space is taken for the last one
EofOnShortRead(sz) == sz <= 1

\* self.eof = sz == 0
EofAfterRead(sz) == sz = 0

\* mutant: a full buffer that cannot grow is taken for the end of the data
CeilingTakenForEof(inp) == [res |-> "ok", inp |-> [inp EXCEPT !.eof = TRUE]]

\* mutant: the capacity is doubled before it is tested against the ceiling
CeilingFailureAfterGrowth(inp) ==
    [res |-> "ceiling", inp |-> [inp EXCEPT !.cap = inp.cap * 2]]

\* scan.rs:128: the buffer is full and may not grow
CeilingFailure(inp) == [res |-> "ceiling", inp |-> inp]

\* the outcomes of one read of the reader into `space` free bytes
ReadOutcomes(inner, space, mayFail) ==
    (IF inner.rest # <<>>
        THEN {[err |-> FALSE, bytes |-> Take(inner.rest, n),
               inner |-> [inner EXCEPT !.rest = Drop(inner.rest, n)]] :
                 n \in 1..Min(Len(inner.rest), space)}
     ELSE IF inner.tail # None
        THEN {[err |-> FALSE, bytes |-> Repeat(inner.tail[1], n), inner |-> inner] :
                 n \in 1..space}
     ELSE {[err |-> FALSE, bytes |-> <<>>, inner |-> inner]})
    \cup (IF mayFail THEN {[err |-> TRUE, bytes |-> <<>>, inner |-> inner]} ELSE {})

\* the outcomes of fill_buf: [res, inp] with res "ok", "ceiling" or "io"
Input_fill_buf(inp, mayFail) ==
    IF inp.kind = "mem" THEN {[res |-> "ok", inp |-> inp]}
    ELSE IF Buffer_free_space(inp) = 0 /\ ~CanGrow(inp.cap)
        THEN {CeilingFailure(inp)}
    ELSE LET cap1 == IF Buffer_free_space(inp) = 0
                        THEN Buffer_reserve(inp.cap, Len(inp.buf), inp.cap * 2)
                        ELSE inp.cap
         IN  {IF r.err
                 THEN [res |-> "io", inp |-> [inp EXCEPT !.cap = cap1]]
                 ELSE [res |-> "ok",
                       inp |-> [inp EXCEPT !.cap = cap1,
                                           !.buf = inp.buf \o r.bytes,
                                           !.inner = r.inner,
                                           !.eof = EofAfterRead(Len(r.bytes))]] :
              r \in ReadOutcomes(inp.inner, cap1 - Len(inp.buf), mayFail)}

(***************************************************************************)
(* Scanner                                                                 *)
(***************************************************************************)
Scanner_new(input, splitter) ==
    [input |-> input, splitter |-> splitter, line |-> 1, column |-> 1]

\* mutant: reset that forgets self.column = 1
Scanner_resetKeepsColumn(sc, input) ==
    [sc EXCEPT !.input = input, !.line = 1]

Scanner_reset(sc, input) ==
    [sc EXCEPT !.input = input, !.line = 1, !.column = 1]

\* mutant: consume that does not put the column back to 1 at a newline
RECURSIVE AdvanceNoColumnReset(_, _, _, _)
AdvanceNoColumnReset(line, column, overflow, bytes) ==
    IF bytes = <<>> THEN [line |-> line, column |-> column, overflow |-> overflow]
    ELSE IF bytes[1] = NL
        THEN AdvanceNoColumnReset((line + 1) % POS_MOD, (column + 1) % POS_MOD,
                                  overflow \/ line + 1 = POS_MOD, Tail(bytes))
        ELSE AdvanceNoColumnReset(line, (column + 1) % POS_MOD,
                                  overflow \/ column + 1 = POS_MOD, Tail(bytes))

\* mutant: consume that counts every byte, a newline too, as a column
RECURSIVE AdvanceColumnOnly(_, _, _, _)
AdvanceColumnOnly(line, column, overflow, bytes) ==
    IF bytes = <<>> THEN [line |-> line, column |-> column, overflow |-> overflow]
    ELSE AdvanceColumnOnly(line, (column + 1) % POS_MOD,
                           overflow \/ column + 1 = POS_MOD, Tail(bytes))

\* the position arithmetic of consume over `bytes`, byte by byte; overflow
\* says that an increment went past the largest value
RECURSIVE Advance(_, _, _, _)
Advance(line, column, overflow, bytes) ==
    IF bytes = <<>> THEN [line |-> line, column |-> column, overflow |-> overflow]
    ELSE IF bytes[1] = NL
        THEN Advance((line + 1) % POS_MOD, 1,
                     overflow \/ line + 1 = POS_MOD, Tail(bytes))
        ELSE Advance(line, (column + 1) % POS_MOD,
                     overflow \/ column + 1 = POS_MOD, Tail(bytes))

\* mutant: consume that counts the bytes and leaves them in the buffer
Scanner_consumeNoInput(sc, amt) ==
    LET p == Advance(sc.line, sc.column, FALSE, Take(Input_buffer(sc.input), amt))
    IN  [sc EXCEPT !.line = p.line, !.column = p.column]

\* Scanner::consume(amt)
Scanner_consume(sc, amt) ==
    LET p == Advance(sc.line, sc.column, FALSE, Take(Input_buffer(sc.input), amt))
    IN  [sc EXCEPT !.line = p.line, !.column = p.column,
                   !.input = Input_consume(sc.input, amt)]

ConsumeOverflows(sc, amt) ==
    Advance(sc.line, sc.column, FALSE, Take(Input_buffer(sc.input), amt)).overflow

\* mutant: scan that tries the Splitter on every pass
ShouldSplitAlways(inp, eof) == TRUE

\* mutant: scan that tries the Splitter only on buffered bytes
ShouldSplitNonEmpty(inp, eof) == ~Input_is_empty(inp)

\* scan.rs:265
ShouldSplit(inp, eof) == ~Input_is_empty(inp) \/ eof

\* mutant: scan that tells the Splitter it is at EOF whatever the Source says
EofPassedAlways(inp) == TRUE

\* the flag scan hands to split
EofPassed(inp) == Input_eof(inp)

\* mutant: the end-of-input arm counts the end as one more column
AfterPassCountsEof(sc, next, amt) ==
    IF next \in {"skip", "token"} THEN Scanner_consume(sc, amt)
    ELSE IF next = "end" THEN [sc EXCEPT !.column = (sc.column + 1) % POS_MOD]
    ELSE sc

\* mutant: the error arm consumes the byte the Splitter failed on
AfterPassErrSkipsByte(sc, next, amt) ==
    IF next \in {"skip", "token"} THEN Scanner_consume(sc, amt)
    ELSE IF next = "err" /\ ~Input_is_empty(sc.input) THEN Scanner_consume(sc, 1)
    ELSE sc

\* the Scanner a pass leaves: the skip and the token arm consume, the others
\* touch nothing
AfterPass(sc, next, amt) ==
    IF next \in {"skip", "token"} THEN Scanner_consume(sc, amt) ELSE sc

\* Lines 263-290 of one pass of the loop of scan: what the pass decides and
\* the Scanner it leaves.
\*   next: "err" return Err(e), "skip" consume and continue, "token" consume
\*   and return the token, "end" return Ok(None), "fill" go on to fill_buf
\*   res: what split returned, when it was called
ScanPass(sc) ==
    LET eof == EofPassed(sc.input)
        called == ShouldSplit(sc.input, Input_eof(sc.input))
        o == Splitter_split(sc.splitter.id, Input_buffer(sc.input), eof)
        sc1 == IF called
                  THEN [sc EXCEPT !.splitter = Splitter_after(sc.splitter)]
                  ELSE sc
        more == ~called \/ (~o.err /\ o.tok = None /\ o.amt = 0)
        next == IF called /\ o.err THEN "err"
                ELSE IF ~more /\ o.tok = None THEN "skip"
                ELSE IF ~more THEN "token"
                ELSE IF Input_eof(sc.input) THEN "end"
                ELSE "fill"
        amt == IF next \in {"skip", "token"} THEN o.amt ELSE 0
    IN  [called |-> called,
         data |-> Input_buffer(sc.input),
         eof |-> eof,
         res |-> o,
         amt |-> amt,
         tok |-> IF next = "token" THEN o.tok ELSE None,
         next |-> next,
         overflow |-> ConsumeOverflows(sc1, amt),
         after |-> AfterPass(sc1, next, amt)]

\* the position scan attaches to a Splitter error: e.position(line, column)
SplitErrorPosition(sc) == Some(<<sc.line, sc.column>>)

\* the position on an error fill_buf returned: `?` converts it and returns
FillErrorPosition(sc) == None

VARIABLES
    scanner,    \* the Scanner: input, splitter, line, column
    pc,         \* "idle", or where a running scan() is: "loop", "fill"; "panic"
    ret,        \* what the last scan() returned
    op,         \* what the last step did
    call,       \* the split invocation of the last pass, if it made one
    orig,       \* the bytes the current Source was built over
    consumed,   \* the bytes consumed from the current Source
    out,        \* the tokens returned from the current Source
    ended,      \* how often scan() returned end-of-input on this Source (up to 2)
    failed,     \* scan() has returned an error on this Source
    ioErrors,   \* reads that failed
    resets      \* calls of reset

vars == <<scanner, pc, ret, op, call, orig, consumed, out, ended, failed,
          ioErrors, resets>>

NoRet == [kind |-> "none", tok |-> None, pos |-> None, origin |-> ""]
RetToken(tok) == [kind |-> "token", tok |-> tok, pos |-> None, origin |-> ""]
RetEnd == [kind |-> "end", tok |-> None, pos |-> None, origin |-> ""]
RetErr(origin, pos) == [kind |-> "err", tok |-> None, pos |-> pos, origin |-> origin]

NoCall == [made |-> FALSE, data |-> <<>>, eof |-> FALSE, res |-> More]

\* the Sources a Scanner is given, of the Scanner's Input type
Sources(kind) ==
    IF kind = "mem" THEN {MemInput(bytes) : bytes \in Inputs}
    ELSE {InputStream_new(Reader(bytes, None)) : bytes \in Inputs}
         \cup {InputStream_new(Reader(<<>>, Some(b))) : b \in Bytes}

SourceBytes(inp) == IF inp.kind = "mem" THEN inp.buf ELSE inp.inner.rest

\* the reader of the current Source ends: the histories are kept
Traced == scanner.input.inner.tail = None

Fresh(sc) ==
    /\ scanner' = sc
    /\ pc' = "idle"
    /\ ret' = NoRet
    /\ call' = NoCall
    /\ orig' = SourceBytes(sc.input)
    /\ consumed' = <<>>
    /\ out' = <<>>
    /\ ended' = 0
    /\ failed' = FALSE

Init ==
    /\ \E kind \in {"mem", "stream"}, id \in SplitterIds :
         \E inp \in Sources(kind) :
            scanner = Scanner_new(inp, Splitter_new(id))
    /\ pc = "idle"
    /\ ret = NoRet
    /\ op = "new"
    /\ call = NoCall
    /\ orig = SourceBytes(scanner.input)
    /\ consumed = <<>>
    /\ out = <<>>
    /\ ended = 0
    /\ failed = FALSE
    /\ ioErrors = 0
    /\ resets = 0

\* scan() is called
ScanCall ==
    /\ pc = "idle"
    /\ pc' = "loop"
    /\ ret' = NoRet
    /\ op' = "call"
    /\ UNCHANGED <<scanner, call, orig, consumed, out, ended, failed, ioErrors, resets>>

\* one pass of the loop up to its return, its continue or its fill_buf
SplitStep ==
    /\ pc = "loop"
    /\ \E p \in {ScanPass(scanner)} :
       LET eaten == IF Traced THEN Take(p.data, p.amt) ELSE <<>>
       IN  /\ call' = IF p.called
                         THEN [made |-> TRUE, data |-> p.data, eof |-> p.eof,
                               res |-> p.res]
                         ELSE NoCall
           /\ scanner' = p.after
           /\ consumed' = consumed \o eaten
           /\ \E wraps \in (IF p.overflow THEN BOOLEAN ELSE {TRUE}) :
                IF ~wraps
                   THEN \* overflow checks are on: the increment panics
                        /\ pc' = "panic"
                        /\ op' = "panic"
                        /\ UNCHANGED <<ret, out, ended, failed>>
                   ELSE /\ op' = p.next
                        /\ pc' = CASE p.next = "skip" -> "loop"
                                   [] p.next = "fill" -> "fill"
                                   [] OTHER -> "idle"
                        /\ ret' = CASE p.next = "err" ->
                                         RetErr("split", SplitErrorPosition(scanner))
                                    [] p.next = "token" -> RetToken(p.tok)
                                    [] p.next = "end" -> RetEnd
                                    [] OTHER -> ret
                        /\ out' = IF p.next = "token" /\ Traced
                                     THEN Append(out, p.tok[1]) ELSE out
                        /\ ended' = IF p.next = "end" THEN Min(ended + 1, 2) ELSE ended
                        /\ failed' = (failed \/ p.next = "err")
    /\ UNCHANGED <<orig, ioErrors, resets>>

\* self.input.fill_buf()?
FillStep ==
    /\ pc = "fill"
    /\ \E f \in Input_fill_buf(scanner.input, ioErrors < MaxIoErrors) :
         /\ scanner' = [scanner EXCEPT !.input = f.inp]
         /\ pc' = IF f.res = "ok" THEN "loop" ELSE "idle"
         /\ op' = IF f.res = "ok" THEN "filled" ELSE "fillerr"
         /\ ret' = IF f.res = "ok" THEN ret
                   ELSE RetErr(f.res, FillErrorPosition(scanner))
         /\ failed' = (failed \/ f.res # "ok")
         /\ ioErrors' = IF f.res = "io" THEN ioErrors + 1 ELSE ioErrors
    /\ UNCHANGED <<call, orig, consumed, out, ended, resets>>

\* reset(input), between two scans
Reset ==
    /\ pc = "idle"
    /\ resets < MaxResets
    /\ \E inp \in Sources(scanner.input.kind) :
         Fresh(Scanner_reset(scanner, inp))
    /\ op' = "reset"
    /\ resets' = resets + 1
    /\ UNCHANGED ioErrors

Next == ScanCall \/ SplitStep \/ FillStep \/ Reset

Spec == Init /\ [][Next]_vars

\* One Source, scanned without a reset. A scan() that was called runs on:
\* its passes and its reads are taken.
NextScan == ScanCall \/ SplitStep \/ FillStep

FairSpec == Init /\ [][NextScan]_vars /\ WF_vars(SplitStep) /\ WF_vars(FillStep)

(***************************************************************************)
(* Properties                                                              *)
(***************************************************************************)
Line == scanner.line
Column == scanner.column
IsStream == scanner.input.kind = "stream"

\* scan() on an in-memory Source over `sc`, called again and again until it
\* returns end-of-input or an error: the tokens returned, the final position
\* and how the run ended
RECURSIVE MemRun(_, _)
MemRun(sc, toks) ==
    LET p == ScanPass(sc)
    IN  IF p.next = "skip" THEN MemRun(p.after, toks)
        ELSE IF p.next = "token" THEN MemRun(p.after, Append(toks, p.tok[1]))
        ELSE [toks |-> toks, line |-> p.after.line, column |-> p.after.column,
              last |-> p.next]

MemReference(bytes, id) ==
    MemRun(Scanner_new(MemInput(bytes), Splitter_new(id)), <<>>)

\* the Splitters that decide a window the same way however much of the
\* remaining input they are shown: before EOF they ask for more data or
\* return what they return for all the remaining input at EOF
ChunkStableIds ==
    {id \in SplitterIds :
        \A X \in SeqsUpTo(MaxLen) : \A n \in 0..Len(X) :
            Splitter_split(id, Take(X, n), FALSE)
                \in {More, Splitter_split(id, X, TRUE)}}

IsPrefix(s, t) == Len(s) <= Len(t) /\ s = Take(t, Len(s))

\* C1 (as claimed): for every deterministic Splitter, a streaming Source that
\* has been scanned to end-of-input has returned the tokens, and stands at
\* the (line, column), of the in-memory scan of the same bytes.
C1_StreamEqualsMemoryAnySplitter ==
    (IsStream /\ Traced /\ ended > 0) =>
        LET m == MemReference(orig, scanner.splitter.id)
        IN  /\ m.last = "end"
            /\ out = m.toks
            /\ <<Line, Column>> = <<m.line, m.column>>

\* C1 (amended): the same, for the Splitters that are chunk-stable; and on
\* the way there the tokens returned so far are a prefix of the in-memory
\* ones, and a Splitter error of the streaming scan is the in-memory scan's,
\* at the same position.
C1_StreamEqualsMemory ==
    (IsStream /\ Traced /\ scanner.splitter.id \in ChunkStableIds) =>
        LET m == MemReference(orig, scanner.splitter.id)
        IN  /\ IsPrefix(out, m.toks)
            /\ ended > 0 =>
                 /\ m.last = "end"
                 /\ out = m.toks
                 /\ <<Line, Column>> = <<m.line, m.column>>
            /\ (pc = "idle" /\ ret.kind = "err" /\ ret.origin = "split") =>
                 /\ m.last = "err"
                 /\ out = m.toks
                 /\ <<Line, Column>> = <<m.line, m.column>>

\* a streaming scan, fed in more than one chunk, that returned two tokens or
\* more and then end-of-input
C1_Witness ==
    /\ IsStream /\ Traced /\ scanner.splitter.id \in ChunkStableIds
    /\ ended > 0 /\ Len(out) >= 2 /\ Len(orig) = MaxLen
    /\ scanner.input.cap > DEFAULT_CAPACITY

NewlinesIn(s) == Cardinality({i \in 1..Len(s) : s[i] = NL})

BytesAfterLastNewline(s) ==
    LET I == {i \in 1..Len(s) : s[i] = NL}
    IN  IF I = {} THEN Len(s) ELSE Len(s) - (CHOOSE i \in I : \A j \in I : j <= i)

\* C2: in every state the bytes consumed so far are a prefix of the Source's
\* bytes, line is 1 + the newlines among them and column is 1 + the bytes
\* consumed after the last of these newlines.
C2_LineColumn ==
    Traced =>
        /\ consumed \o scanner.input.buf \o scanner.input.inner.rest = orig
        /\ Line = 1 + NewlinesIn(consumed)
        /\ Column = 1 + BytesAfterLastNewline(consumed)

\* bytes consumed on both sides of a newline
C2_Witness ==
    /\ Traced /\ consumed # <<>>
    /\ NewlinesIn(consumed) = 1
    /\ BytesAfterLastNewline(consumed) = 1
    /\ Len(consumed) = 3

\* C3: once scan() has returned end-of-input, a step that is not a reset is
\* the call of scan() or its return of end-of-input again, and it leaves the
\* Scanner (Source, buffer, eof flag, line, column) as it was; no fill_buf.
C3_ExhaustionIsIdempotent ==
    [][(ended > 0 /\ op' # "reset") =>
          /\ \/ op' = "call" /\ ret' = NoRet /\ pc' = "loop"
             \/ op' = "end" /\ ret' = RetEnd /\ pc' = "idle"
          /\ scanner' = scanner
          /\ consumed' = consumed /\ out' = out]_vars

\* end-of-input returned a second time
C3_Witness == ended = 2 /\ pc = "idle" /\ ret = RetEnd

\* C6: the Splitter is not invoked with empty data unless the eof flag it is
\* given is true, and that flag is the Source's eof().
C6_SplitNeverOnEmptyBeforeEof ==
    (call.made /\ op \in {"err", "skip", "token", "end", "fill"}) =>
        /\ call.data = <<>> => call.eof
        /\ call.eof = Input_eof(scanner.input)

\* the Splitter invoked on empty data, at EOF of a streaming Source
C6_Witness ==
    /\ call.made /\ call.data = <<>> /\ call.eof /\ IsStream /\ op = "end"

\* C9: reset(input) puts line and column to 1, installs the new Source as it
\* was built and keeps the Splitter and its state; from there on the Scanner
\* scans the new Source from its first byte.
C9_Reset ==
    [][/\ op' = "reset" =>
            /\ scanner'.line = 1 /\ scanner'.column = 1
            /\ scanner'.splitter = scanner.splitter
            /\ scanner'.input.kind = scanner.input.kind
            /\ scanner'.input = IF scanner'.input.kind = "mem"
                                   THEN MemInput(orig')
                                   ELSE InputStream_new(scanner'.input.inner)
            /\ SourceBytes(scanner'.input) = orig'
            /\ consumed' = <<>> /\ out' = <<>>
            /\ pc' = "idle"
       /\ (resets' > 0 /\ scanner'.input.inner.tail = None) =>
            consumed' \o scanner'.input.buf \o scanner'.input.inner.rest = orig'
      ]_vars

\* a Scanner reset after an error, its Splitter used before, that has since
\* returned a token of the new Source
C9_Witness ==
    /\ resets > 0 /\ scanner.splitter.used /\ ret.kind = "token"
    /\ Traced /\ consumed # <<>> /\ ioErrors > 0

Position == <<scanner.line, scanner.column>>

\* C4: after scan() has returned an error, no step short of a reset returns
\* a token or consumes bytes.
C4_FirstErrorIsTerminal ==
    [][(failed /\ op' # "reset") =>
          /\ ret'.kind # "token"
          /\ Position' = Position
          /\ Len(scanner'.input.buf) >= Len(scanner.input.buf)]_vars

\* C5: the error scan() returned carries the Scanner's (line, column).
C5_ErrorsCarryPosition ==
    (pc = "idle" /\ ret.kind = "err") => ret.pos = Some(Position)

\* the Splitters that ask for more data as long as they see letters only
\* and no EOF
WaitingIds ==
    {id \in SplitterIds :
        \A n \in 1..MAX_CAPACITY :
            Splitter_split(id, Repeat(LETTER, n), FALSE) = More}

\* the reader delivers one run of letters longer than the ceiling, to a
\* Splitter that waits for a delimiter or EOF
RunBeyondCeiling ==
    /\ IsStream
    /\ scanner.splitter.id \in WaitingIds
    /\ \/ scanner.input.inner.tail = Some(LETTER) /\ orig = <<>>
       \/ /\ scanner.input.inner.tail = None
          /\ Len(orig) > MAX_CAPACITY
          /\ \A i \in 1..Len(orig) : orig[i] = LETTER

\* C7: on such a run every scan() returns, and what it returns is an error:
\* the ceiling failure of fill_buf, unless a read itself failed.
C7_RunBeyondCeilingFails ==
    /\ [](RunBeyondCeiling /\ pc = "idle" /\ ret.kind # "none" =>
            /\ ret.kind = "err"
            /\ ret.origin \in {"ceiling", "io"}
            /\ ioErrors = 0 => ret.origin = "ceiling")
    /\ [](RunBeyondCeiling => out = <<>> /\ ended = 0 /\ Position = <<1, 1>>)
    /\ (RunBeyondCeiling /\ pc \in {"loop", "fill"}) ~> (pc = "idle")

\* the ceiling failure returned with the buffer full at its largest capacity
C7_Witness ==
    /\ RunBeyondCeiling /\ pc = "idle" /\ ret.kind = "err" /\ ret.origin = "ceiling"
    /\ scanner.input.cap > DEFAULT_CAPACITY
    /\ Len(scanner.input.buf) = scanner.input.cap
    /\ ~CanGrow(scanner.input.cap)

\* C8 (as claimed): a scan() that was called returns (or panics).
C8_ScanTerminates ==
    (pc \in {"loop", "fill"}) ~> (pc \in {"idle", "panic"})

\* C8 (amended): a scan() that was called returns (or panics) unless its
\* passes go on skipping: from any point of the call, it returns or another
\* skip follows.
C8_ScanTerminatesOrSkips ==
    (pc \in {"loop", "fill"}) ~> (pc \in {"idle", "panic"} \/ op = "skip")

\* a scan() over a reader that never reports the end of its data, returned
\* by the ceiling failure after reads that filled the buffer
C8_Witness ==
    /\ ~Traced /\ pc = "idle" /\ op = "fillerr" /\ ret.origin = "ceiling"
    /\ scanner.splitter.id = "comma"

\* C10 (as claimed): with the in-memory Source and the Splitter that takes
\* the whole input as one token, whenever a scan() has returned, exactly one
\* token has been returned, it spans the whole input, and all of the input is
\* consumed; the return is that token or, after it, end-of-input.
C10_OneTokenThenEnd ==
    (~IsStream /\ scanner.splitter.id = "whole" /\ pc = "idle" /\ ret.kind # "none") =>
        /\ out = <<orig>>
        /\ consumed = orig
        /\ scanner.input.buf = <<>>
        /\ \/ ret = RetToken(Some(orig)) /\ ended = 0
           \/ ret = RetEnd

\* C10 (amended): the same for a non-empty input; on the empty input every
\* scan(), the first one too, returns end-of-input and no token.
C10_OneTokenThenEndNonEmpty ==
    (~IsStream /\ scanner.splitter.id = "whole" /\ pc = "idle" /\ ret.kind # "none") =>
        IF orig # <<>>
           THEN /\ out = <<orig>>
                /\ consumed = orig
                /\ scanner.input.buf = <<>>
                /\ \/ ret = RetToken(Some(orig)) /\ ended = 0
                   \/ ret = RetEnd
           ELSE out = <<>> /\ ret = RetEnd

\* the token of a longest input, then end-of-input twice
C10_Witness ==
    /\ ~IsStream /\ scanner.splitter.id = "whole"
    /\ Len(orig) = MaxLen /\ out = <<orig>> /\ ended = 2

OnlyDelims(s) == \A i \in 1..Len(s) : s[i] \in Delims

\* C11: over an input of delimiter bytes only, with the Splitter that skips
\* delimiters and never emits, no token is ever returned; the first scan()
\* that returns, returns end-of-input (or the error of a read that failed),
\* and then every byte is consumed: the buffer is empty, nothing is left to
\* read, and line and column count all the bytes of the input.
C11_DelimitersOnly ==
    (Traced /\ scanner.splitter.id = "delims" /\ OnlyDelims(orig)) =>
        /\ out = <<>>
        /\ (pc = "idle" /\ ret.kind # "none") =>
              \/ ret = RetEnd
              \/ ret.kind = "err" /\ ret.origin = "io" /\ ioErrors > 0
        /\ ended > 0 =>
              /\ consumed = orig
              /\ scanner.input.buf = <<>> /\ scanner.input.inner.rest = <<>>
              /\ Line = 1 + NewlinesIn(orig)
              /\ Column = 1 + BytesAfterLastNewline(orig)

\* a streaming Source over a longest input of delimiters, newlines and commas
\* both, skipped to end-of-input in the first scan()
C11_Witness ==
    /\ Traced /\ IsStream /\ scanner.splitter.id = "delims"
    /\ OnlyDelims(orig) /\ Len(orig) = MaxLen
    /\ NewlinesIn(orig) = 1 /\ orig[Len(orig)] = COMMA
    /\ ended = 1 /\ ret = RetEnd /\ failed = FALSE /\ consumed = orig

\* the tokens of the example: "a", "bb", "" and "ccc"
ExampleTokens == <<<<97>>, <<98, 98>>, <<>>, <<99, 99, 99>>>>

\* C12: over the input a,bb,,ccc\n, with the Splitter that emits the bytes
\* before each ',' and ends the last token at the newline, the scan() calls
\* return "a", "bb", "", "ccc" in this order, each call the next one, and
\* then end-of-input, where line is 2 (and column 1, the buffer empty).
C12_Example ==
    (orig = Example /\ scanner.splitter.id = "comma") =>
        /\ IsPrefix(out, ExampleTokens)
        /\ (pc = "idle" /\ ret.kind = "token") =>
              /\ out # <<>>
              /\ ret.tok = Some(out[Len(out)])
              /\ ended = 0
        /\ (pc = "idle" /\ ret.kind = "err") => ret.origin = "io"
        /\ ended > 0 =>
              /\ out = ExampleTokens
              /\ Line = 2 /\ Column = 1
              /\ consumed = Example /\ scanner.input.buf = <<>>

\* the example scanned to end-of-input from a reader, the last token found
\* after the buffer grew
C12_Witness ==
    /\ orig = Example /\ scanner.splitter.id = "comma" /\ IsStream
    /\ ended = 1 /\ ret = RetEnd /\ out = ExampleTokens /\ Line = 2
    /\ scanner.input.cap > DEFAULT_CAPACITY /\ ~failed

Capacity == scanner.input.cap

\* a step on the streaming Source the Scanner holds (not its replacement)
SameStream == IsStream /\ op' # "reset"

\* the capacity of the streaming Source never decreases and never exceeds
\* the ceiling; it changes only in a fill_buf that found no free space and
\* whose test of scan.rs:123 passed, and then by reserve(2 * capacity)
CapacityGrowsByReserve ==
    [][SameStream =>
          /\ Capacity' >= Capacity
          /\ Capacity' <= MAX_CAPACITY
          /\ Capacity' # Capacity =>
                /\ op' \in {"filled", "fillerr"}
                /\ Buffer_free_space(scanner.input) = 0
                /\ CanGrow(Capacity)
                /\ Capacity' = Len(scanner.input.buf) + 2 * Capacity]_vars

\* C13: the capacity of the streaming Source never decreases and never
\* exceeds the ceiling, and when it changes, it is fill_buf that found no
\* free space and doubled it.
C13_CapacityOnlyDoubles ==
    [][SameStream =>
          /\ Capacity' >= Capacity
          /\ Capacity' <= MAX_CAPACITY
          /\ Capacity' # Capacity =>
                /\ op' \in {"filled", "fillerr"}
                /\ Buffer_free_space(scanner.input) = 0
                /\ Capacity' = 2 * Capacity]_vars

\* fill_buf ran on the streaming Source, whose buffer had no free space
FillOnFullBuffer ==
    /\ SameStream /\ op' \in {"filled", "fillerr"}
    /\ Buffer_free_space(scanner.input) = 0

CeilingError == op' = "fillerr" /\ ret'.kind = "err" /\ ret'.origin = "ceiling"

\* fill_buf on a full buffer fails with the out-of-space error exactly when
\* the test of scan.rs:123 fails; when it passes, reserve(2 * capacity) is
\* called and the read is made
CeilingIffCannotGrow ==
    [][FillOnFullBuffer =>
          /\ CeilingError <=> ~CanGrow(Capacity)
          /\ CanGrow(Capacity) =>
                /\ Capacity' = Len(scanner.input.buf) + 2 * Capacity
                /\ op' = "filled" \/ ret'.origin = "io"]_vars

\* C14: fill_buf on a buffer without free space, of capacity c, fails with
\* the out-of-space error if and only if 2 * c exceeds the ceiling; when
\* 2 * c is at most the ceiling, it doubles the capacity and goes on to read.
C14_CeilingIffDoublingExceeds ==
    [][FillOnFullBuffer =>
          /\ CeilingError <=> 2 * Capacity > MAX_CAPACITY
          /\ 2 * Capacity <= MAX_CAPACITY =>
                /\ Capacity' = 2 * Capacity
                /\ op' = "filled" \/ ret'.origin = "io"]_vars

\* scan() returns in this step
Returns == pc # "idle" /\ pc' = "idle"

\* C15: a scan() that returns end-of-input does so in a pass in which the
\* Source's eof() was true and the Splitter, invoked in that pass, requested
\* more data (no token, amount 0), and the pass consumed nothing; a scan()
\* that returns a token does so in a pass in which the Splitter returned
\* that token with an amount, and exactly the first `amount` bytes of the
\* data it was shown have been consumed.
C15_ReturnsFollowSplitter ==
    [][/\ (Returns /\ ret'.kind = "end") =>
            /\ op' = "end"
            /\ Input_eof(scanner.input)
            /\ call'.made /\ call'.eof /\ call'.res = More
            /\ call'.data = Input_buffer(scanner.input)
            /\ scanner'.input = scanner.input
            /\ consumed' = consumed
       /\ (Returns /\ ret'.kind = "token") =>
            /\ op' = "token"
            /\ call'.made /\ ~call'.res.err /\ call'.res.tok # None
            /\ ret'.tok = call'.res.tok
            /\ call'.data = Input_buffer(scanner.input)
            /\ Input_buffer(scanner'.input) =
                  Drop(Input_buffer(scanner.input), call'.res.amt)
            /\ Traced => consumed' = consumed \o Take(call'.data, call'.res.amt)
      ]_vars

\* a streaming scan that returned a token together with the delimiter after
\* it, consumed in one piece, and then end-of-input
C15_Witness ==
    /\ IsStream /\ Traced /\ scanner.splitter.id = "comma"
    /\ op = "end" /\ ended = 1 /\ call.made /\ call.data = <<>>
    /\ out = <<<<LETTER, LETTER>>>> /\ Len(consumed) = 3

\* the skip arm was taken in this step: amount > 0 bytes of the data the
\* Splitter was shown are consumed
SkipConsumes ==
    op' = "skip" =>
        /\ call'.made /\ ~call'.res.err /\ call'.res.tok = None
        /\ call'.res.amt > 0
        /\ call'.data = Input_buffer(scanner.input)
        /\ Input_buffer(scanner'.input) =
              Drop(Input_buffer(scanner.input), call'.res.amt)
        /\ pc' = "loop"

\* C16 (as claimed): a skip consumes its amount of bytes, and the step after
\* a skip invokes the Splitter on the bytes that remain in the buffer: no
\* fill_buf comes in between.
C16_SkipReinvokesSplitter ==
    [][/\ SkipConsumes
       /\ (op = "skip" /\ pc = "loop") =>
            /\ call'.made
            /\ call'.data = Input_buffer(scanner.input)]_vars

\* C16 (amended): the same when bytes remain or the Source is at EOF; when
\* the skip emptied the buffer before EOF, the next step is the pass that
\* invokes no Splitter and goes on to fill_buf.
C16_SkipReinvokesSplitterOrRefills ==
    [][/\ SkipConsumes
       /\ (op = "skip" /\ pc = "loop") =>
            IF ~Input_is_empty(scanner.input) \/ Input_eof(scanner.input)
               THEN /\ call'.made
                    /\ call'.data = Input_buffer(scanner.input)
                    /\ call'.eof = Input_eof(scanner.input)
               ELSE /\ ~call'.made
                    /\ op' = "fill" /\ pc' = "fill"
                    /\ scanner' = scanner]_vars

\* a skip, in a streaming Source before EOF, that left bytes in the buffer:
\* the next pass invokes the Splitter on them
C16_Witness ==
    /\ IsStream /\ Traced /\ ~Input_eof(scanner.input)
    /\ op = "skip" /\ pc = "loop" /\ call.made /\ call.res.amt = 1
    /\ Len(call.data) = 2 /\ Input_buffer(scanner.input) = <<call.data[2]>>

\* C17: the pass in which the Splitter returns an error consumes nothing:
\* the Source (buffer, capacity, eof flag, reader), line and column are what
\* they were when the Splitter was invoked, the bytes consumed before stay
\* consumed, and the position on the error is this (line, column), that of
\* the first byte of the data the Splitter was given.
C17_SplitterErrorConsumesNothing ==
    [][op' = "err" =>
          /\ call'.made /\ call'.res.err
          /\ call'.data = Input_buffer(scanner.input)
          /\ scanner'.input = scanner.input
          /\ Line' = Line /\ Column' = Column
          /\ consumed' = consumed
          /\ ret'.kind = "err" /\ ret'.origin = "split"
          /\ ret'.pos = Some(<<Line, Column>>)
          /\ Traced =>
                /\ consumed \o call'.data \o scanner.input.inner.rest = orig
                /\ ret'.pos = Some(<<1 + NewlinesIn(consumed),
                                     1 + BytesAfterLastNewline(consumed)>>)]_vars

\* one scan() of a reader that skipped a comma and a newline and then got
\* the Splitter's error on the letter after them, at line 2, column 1
C17_Witness ==
    /\ IsStream /\ Traced /\ scanner.splitter.id = "delims"
    /\ op = "err" /\ pc = "idle" /\ ret = RetErr("split", Some(<<2, 1>>))
    /\ consumed = <<COMMA, NL>> /\ Input_buffer(scanner.input) = <<LETTER>>
    /\ ioErrors = 0

\* the eof flag of the Source: what eof() returns
EofFlag == scanner.input.eof

FillBufRuns == op' \in {"filled", "fillerr"}

\* C18: fill_buf runs only on a Source whose eof flag is false, and scan()
\* goes for it only then; once the flag is true, every step short of a reset
\* leaves it true, makes no fill_buf call and leaves the reader as it is.
C18_NoFillAtEof ==
    [][/\ FillBufRuns => ~EofFlag
       /\ pc' = "fill" => ~EofFlag'
       /\ (EofFlag /\ op' # "reset") =>
            /\ EofFlag'
            /\ ~FillBufRuns /\ pc' # "fill"
            /\ scanner'.input.inner = scanner.input.inner]_vars

\* a streaming Source whose reader made its zero-byte read with bytes still
\* buffered: scan() returned them as a token and then end-of-input, twice
C18_Witness ==
    /\ IsStream /\ Traced /\ EofFlag
    /\ scanner.splitter.id = "comma"
    /\ orig = <<LETTER, COMMA, LETTER>> /\ out = <<<<LETTER>>, <<LETTER>>>>
    /\ ended = 2 /\ ioErrors = 0

\* C19: a fill_buf that fails with the ceiling error leaves the Source as
\* it was: the reader (nothing was read), the buffered bytes, the capacity
\* and the eof flag; and the Scanner's line and column with it.
C19_CeilingFailureChangesNothing ==
    [][CeilingError =>
          /\ pc = "fill" /\ IsStream
          /\ scanner'.input.inner = scanner.input.inner
          /\ Input_buffer(scanner'.input) = Input_buffer(scanner.input)
          /\ Capacity' = Capacity
          /\ EofFlag' = EofFlag
          /\ scanner' = scanner]_vars

\* the ceiling error on a full buffer of the largest capacity, with bytes
\* of the reader still unread
C19_Witness ==
    /\ IsStream /\ Traced /\ op = "fillerr" /\ ret.origin = "ceiling"
    /\ Capacity > DEFAULT_CAPACITY
    /\ Len(scanner.input.buf) = Capacity
    /\ scanner.input.inner.rest # <<>> /\ ~EofFlag

====
